---------------------------- MODULE Spec2Model ----------------------------
(* Voice-dictation session of the feedback chat widget (src/src/App.js,   *)
(* the App component, lines 683-1388): the speech-recognition callbacks   *)
(* onstart / onend / onresult / onerror, the handlers handleVoiceInput,   *)
(* handleCancelListening and handleSendMessage, and the platform          *)
(* (recognition stream, timers, fetch, permission prompt) around them.    *)
(* Text is a sequence of one-character strings, so that trim(),           *)
(* toLowerCase() and join(' ') are computed, not assumed.                 *)
EXTENDS Integers, Sequences, FiniteSets, TLC

(***************************************************************************)
(* Bounds of the model                                                     *)
(***************************************************************************)
\* segments per RecognitionEvent
MaxSegs == 2
\* onend notifications the platform may still owe (duplicates, superseded runs)
MaxEndsOwed == 1
\* timers (setTimeout of the deferred auto-send) pending at once
MaxTimers == 1
\* messages the user gets to send (each adds two entries to the conversation)
MaxDispatches == 1
\* permission requests pending at once, per origin
MaxPerm == 1
\* messages of the conversation specification (the sixth leaves the window)
MaxConversation == 6
\* messages of the overlap specification (a send can meet a request in flight)
MaxOverlap == 2
\* messages the dictations of the lifecycle specification get to send
MaxLifecycle == 2

(***************************************************************************)
(* Text                                                                    *)
(***************************************************************************)
SP == " "

RECURSIVE TrimStart(_)
TrimStart(s) == IF s # <<>> /\ Head(s) = SP THEN TrimStart(Tail(s)) ELSE s

RECURSIVE TrimEnd(_)
TrimEnd(s) ==
    IF s # <<>> /\ s[Len(s)] = SP THEN TrimEnd(SubSeq(s, 1, Len(s) - 1)) ELSE s

\* String.prototype.trim
Trim(s) == TrimEnd(TrimStart(s))

LowerChar(c) == IF c = "A" THEN "a" ELSE IF c = "B" THEN "b" ELSE c

\* String.prototype.toLowerCase
ToLowerCase(s) == [i \in 1..Len(s) |-> LowerChar(s[i])]

\* Array.prototype.join(' ')
RECURSIVE Join(_)
Join(parts) ==
    IF parts = <<>> THEN <<>>
    ELSE IF Len(parts) = 1 THEN parts[1]
    ELSE parts[1] \o <<SP>> \o Join(Tail(parts))

\* raw transcripts the platform delivers in a segment
Transcripts == { <<SP>>, <<"a">>, <<"A">>, <<SP, "b">> }

Segments == [transcript : Transcripts, isFinal : BOOLEAN]

\* event.results of one RecognitionEvent
Events == UNION { [1..n -> Segments] : n \in 0..MaxSegs }

\* the events of the session specification: one segment at most
SessionTranscripts == { <<SP>>, <<"a">> }

SessionEvents ==
    { <<>> } \cup { <<seg>> : seg \in [transcript : SessionTranscripts, isFinal : BOOLEAN] }

\* what the user can leave in the textarea by typing
TypedTexts == { <<>>, <<SP>>, <<"c">> }

\* dedup keys the transcripts can produce
Fingerprints == { ToLowerCase(Trim(t)) : t \in Transcripts } \ { <<>> }

(***************************************************************************)
(* User-facing advisory strings                                            *)
(***************************************************************************)
MsgNetwork == "Network error. Please check your internet connection and try again."
MsgDeniedRequesting == "Microphone permission denied. Requesting permission again..."
MsgGranted == "Permission granted! Please click the microphone button again to use voice input."
MsgPermissionRequired == "Microphone permission is required. Please enable microphone access in your browser settings and try again. On mobile: Settings > Browser > Microphone > Allow"
MsgPermissionError == "Microphone permission error. Please try again."
MsgNoSpeech == "No speech detected. Please try again and speak clearly."
MsgCouldNotStart == "Could not start voice recognition. Please try again or type your message."
MsgFallback == "Gemini is limited right now. Using fallback mode."
MsgVoiceError(err) == "Voice recognition error: " \o err \o ". Please try again or type your message."
MsgSelectAc == "Please select an AC ID before sending your message."

\* getMicrophonePermissionErrorMessage(errorType)
getMicrophonePermissionErrorMessage(errorType) ==
    IF errorType \in {"not-allowed", "service-not-allowed", "NotAllowedError"}
    THEN MsgPermissionRequired
    ELSE MsgPermissionError

\* event.error codes; "" stands for a missing code
ErrorCodes == { "network", "not-allowed", "service-not-allowed", "no-speech", "aborted", "" }

(***************************************************************************)
\* the error code of the session specification
SessionErrorCodes == { "no-speech" }

(***************************************************************************)
(* State                                                                   *)
(***************************************************************************)
VARIABLES
    \* React state and the refs mirroring it
    inputValue, inputValueRef, isListening, isLoading, isLoadingRef,
    speechError, messagesRef,
    \* dictation refs and the flags kept on the recognition object
    finalTranscriptRef, shouldSendOnStopRef, isManualStart, seenFinalTexts,
    \* platform: recognition stream, owed onend notifications, pending timers,
    \* the fetch in flight, pending permission requests
    stream, endsOwed, timers, request, permOnError, permStart,
    \* history of the current dictation (reset by a user start)
    acceptedFinals, stopAndSendCalled, autoSends, endsHandled,
    \* the event the last step delivered, if it delivered one
    lastResult,
    \* the zone id the page was opened with, and the unit id kept beside it
    zoneIdFromUrl, selectedAcIdRef

reactVars == <<inputValue, inputValueRef, isListening, isLoading, isLoadingRef,
               speechError, messagesRef>>
dictVars == <<finalTranscriptRef, shouldSendOnStopRef, isManualStart, seenFinalTexts>>
platformVars == <<stream, endsOwed, timers, request, permOnError, permStart>>
historyVars == <<acceptedFinals, stopAndSendCalled, autoSends, endsHandled>>
zoneVars == <<zoneIdFromUrl, selectedAcIdRef>>
vars == <<reactVars, dictVars, platformVars, historyVars, lastResult, zoneVars>>

\* no event was delivered by the last step
NoResult == [hadText |-> FALSE, interim |-> <<>>]

\* lines 724-750: the zone id of the URL (query or path), '' when it has none
ZoneIds == { "", "ZONE_123" }

\* line 688: the unit id used when the URL gives none
DefaultAcId == "AC-001"

\* line 1153: the chat is rendered only when the page was opened with a zone id
isZoneContext == zoneIdFromUrl # ""

Init ==
    /\ zoneIdFromUrl \in ZoneIds
    /\ selectedAcIdRef = IF zoneIdFromUrl = "" THEN DefaultAcId ELSE zoneIdFromUrl
    /\ lastResult = NoResult
    /\ inputValue = <<>>
    /\ inputValueRef = <<>>
    /\ isListening = FALSE
    /\ isLoading = FALSE
    /\ isLoadingRef = FALSE
    /\ speechError = ""
    /\ messagesRef = <<>>
    /\ finalTranscriptRef = <<>>
    /\ shouldSendOnStopRef = FALSE
    /\ isManualStart = FALSE
    /\ seenFinalTexts = {}
    /\ stream = "idle"
    /\ endsOwed = 0
    /\ timers = <<>>
    /\ request = <<>>
    /\ permOnError = 0
    /\ permStart = 0
    /\ acceptedFinals = <<>>
    /\ stopAndSendCalled = FALSE
    /\ autoSends = 0
    /\ endsHandled = 0

(***************************************************************************)
(* Transcript reconciliation: recognitionRef.current.onresult              *)
(***************************************************************************)
\* line 886: a final chunk is accepted when its key was not seen before
IsNewFinal(chunkKey, seen) == chunkKey \notin seen

\* faulty variant: every result is taken for a final one
IsFinal_Always(result) == TRUE

\* line 883: result.isFinal
IsFinal(result) == result.isFinal

\* faulty variant: the key keeps the casing of the chunk
ChunkKey_Exact(chunk) == chunk

\* line 885: chunk.toLowerCase()
ChunkKey(chunk) == ToLowerCase(chunk)

\* lines 878-894: the loop over event.results
RECURSIVE WalkResults(_, _, _, _, _)
WalkResults(results, i, seen, finalTextParts, interimText) ==
    IF i > Len(results)
    THEN [seen |-> seen, finalTextParts |-> finalTextParts, interimText |-> interimText]
    ELSE LET chunk == Trim(results[i].transcript) IN
         IF chunk = <<>>
         THEN WalkResults(results, i + 1, seen, finalTextParts, interimText)
         ELSE IF IsFinal(results[i])
         THEN LET chunkKey == ChunkKey(chunk) IN
              IF IsNewFinal(chunkKey, seen)
              THEN WalkResults(results, i + 1, seen \cup {chunkKey},
                               Append(finalTextParts, chunk), interimText)
              ELSE WalkResults(results, i + 1, seen, finalTextParts, interimText)
         ELSE WalkResults(results, i + 1, seen, finalTextParts,
                          interimText \o (IF interimText # <<>> THEN <<SP>> ELSE <<>>) \o chunk)

\* lines 897-899: finalTranscriptRef after the loop
RebuildFinal(finalTextParts, old) ==
    IF Len(finalTextParts) > 0 THEN Trim(Join(finalTextParts)) ELSE old

\* line 902: `${finalTranscriptRef.current} ${interimText}`.trim()
Combined(final, interimText) == Trim(final \o <<SP>> \o interimText)

\* the finals of the dictation in the order each was first delivered, each
\* with the casing of its first delivery (history, read from the events alone)
RECURSIVE FirstAcceptance(_, _, _)
FirstAcceptance(accepted, event, i) ==
    IF i > Len(event) THEN accepted
    ELSE LET t == Trim(event[i].transcript) IN
         IF /\ event[i].isFinal
            /\ t # <<>>
            /\ \A j \in 1..Len(accepted) : ToLowerCase(accepted[j]) # ToLowerCase(t)
         THEN FirstAcceptance(Append(accepted, t), event, i + 1)
         ELSE FirstAcceptance(accepted, event, i + 1)

\* the trimmed non-empty interim chunks of an event, in order
RECURSIVE InterimChunks(_, _)
InterimChunks(event, i) ==
    IF i > Len(event) THEN <<>>
    ELSE LET t == Trim(event[i].transcript) IN
         IF ~event[i].isFinal /\ t # <<>>
         THEN <<t>> \o InterimChunks(event, i + 1)
         ELSE InterimChunks(event, i + 1)

\* keys delivered as final segments by an event
FinalKeys(event) ==
    { ToLowerCase(Trim(event[i].transcript)) :
        i \in { j \in 1..Len(event) : event[j].isFinal } } \ { <<>> }

onresult(event) ==
    LET w == WalkResults(event, 1, seenFinalTexts, <<>>, <<>>)
        final == RebuildFinal(w.finalTextParts, finalTranscriptRef)
        combined == Combined(final, w.interimText)
    IN  /\ seenFinalTexts' = w.seen
        /\ finalTranscriptRef' = final
        /\ IF Len(combined) > 0
           THEN inputValueRef' = combined /\ inputValue' = combined
           ELSE UNCHANGED <<inputValueRef, inputValue>>
        /\ speechError' = ""
        /\ acceptedFinals' = FirstAcceptance(acceptedFinals, event, 1)
        /\ UNCHANGED <<isListening, isLoading, isLoadingRef, messagesRef,
                       shouldSendOnStopRef, isManualStart,
                       timers, request, permOnError, permStart,
                       stopAndSendCalled, autoSends, endsHandled>>

(***************************************************************************)
(* recognitionRef.current.onstart                                          *)
(***************************************************************************)
\* faulty variant: every start event resets the transcript
ResetsOnStart_Always(manual) == TRUE

\* line 809: only the start event of a manual start resets
ResetsOnStart(manual) == manual

onstart ==
    /\ IF ResetsOnStart(isManualStart)
       THEN /\ finalTranscriptRef' = <<>>
            /\ isManualStart' = FALSE
            /\ seenFinalTexts' = {}
            /\ acceptedFinals' = <<>>
       ELSE UNCHANGED <<finalTranscriptRef, isManualStart, seenFinalTexts, acceptedFinals>>
    /\ UNCHANGED <<reactVars, shouldSendOnStopRef,
                   timers, request, permOnError, permStart,
                   stopAndSendCalled, autoSends, endsHandled>>

(***************************************************************************)
(* recognitionRef.current.onend                                            *)
(***************************************************************************)
\* faulty variant: the auto-send branch is taken whatever the intent
TakesSendBranch_Always(shouldSend) == TRUE

\* line 828: the auto-send branch is taken on the intent flag
TakesSendBranch(shouldSend) == shouldSend

\* faulty variant: the intent is left set
IntentAfterEnd_Kept == TRUE

\* line 829: the intent after the auto-send branch
IntentAfterEnd == FALSE

\* faulty variant: the displayed text is preferred to the final text
TextToSend_InputFirst(final, input) ==
    IF Trim(input) # <<>> THEN Trim(input) ELSE Trim(final)

\* lines 831-834
TextToSend(final, input) ==
    IF Trim(final) # <<>> THEN Trim(final) ELSE Trim(input)

\* faulty variant: the send is scheduled without looking at the text
HasText_Always(textToSend) == TRUE

\* line 841: textToSend && textToSend.length > 0
HasText(textToSend) == Len(textToSend) > 0

\* faulty variant: the text is not trimmed before it is measured
IsBlank_NoTrim(currentText) == Len(currentText) = 0

\* line 854: currentText.trim().length === 0
IsBlank(currentText) == Len(Trim(currentText)) = 0

\* faulty variant: the end of the stream leaves the listening state as it was
ListeningAfterEnd_Kept(listening) == listening

\* line 821: setIsListening(false)
ListeningAfterEnd(listening) == FALSE

onend ==
    /\ isListening' = ListeningAfterEnd(isListening)
    /\ isManualStart' = FALSE
    /\ IF TakesSendBranch(shouldSendOnStopRef)
       THEN LET textToSend == TextToSend(finalTranscriptRef, inputValueRef) IN
            /\ shouldSendOnStopRef' = IntentAfterEnd
            /\ finalTranscriptRef' = <<>>
            /\ inputValueRef' = <<>>
            /\ inputValue' = <<>>
            /\ IF HasText(textToSend)
               THEN /\ Len(timers) < MaxTimers
                    /\ timers' = Append(timers, textToSend)
                    /\ autoSends' = IF autoSends < 2 THEN autoSends + 1 ELSE autoSends
               ELSE UNCHANGED <<timers, autoSends>>
       ELSE /\ IF IsBlank(inputValueRef)
               THEN /\ finalTranscriptRef' = <<>>
                    /\ inputValueRef' = <<>>
                    /\ inputValue' = <<>>
               ELSE UNCHANGED <<finalTranscriptRef, inputValueRef, inputValue>>
            /\ UNCHANGED <<shouldSendOnStopRef, timers, autoSends>>
    /\ UNCHANGED <<isLoading, isLoadingRef, speechError, messagesRef, seenFinalTexts,
                   request, permOnError, permStart,
                   acceptedFinals, stopAndSendCalled>>
    /\ endsHandled' = IF endsHandled < 2 THEN endsHandled + 1 ELSE endsHandled

(***************************************************************************)
(* recognitionRef.current.onerror                                          *)
(***************************************************************************)
\* faulty variant: the error leaves the intent as it was
IntentAfterError_Kept(shouldSend) == shouldSend

\* line 921: the intent after an error
IntentAfterError(shouldSend) == FALSE

\* the field `name` of the value requestMicrophonePermission() resolves to:
\* the promise resolves to a boolean, and a boolean has no such field
ResultField(result, name) == FALSE

\* faulty variant: a code without a message of its own gets no advisory
ErrorAdvisory_NoFallback(code) ==
    IF code = "network" THEN MsgNetwork
    ELSE IF code \in {"not-allowed", "service-not-allowed"} THEN MsgDeniedRequesting
    ELSE IF code = "no-speech" THEN MsgNoSpeech
    ELSE ""

\* lines 914, 923-943: the advisory published synchronously
ErrorAdvisory(code) ==
    LET err == IF code = "" THEN "unknown" ELSE code IN
    IF err = "network" THEN MsgNetwork
    ELSE IF err \in {"not-allowed", "service-not-allowed"} THEN MsgDeniedRequesting
    ELSE IF err = "no-speech" THEN MsgNoSpeech
    ELSE MsgVoiceError(err)

\* faulty variant: only one of the two permission codes asks again
RequestsPermission_NotAllowedOnly(code) == code = "not-allowed"

\* line 925: the codes on which the permission is requested again
RequestsPermission(code) == code \in {"not-allowed", "service-not-allowed"}

onerror(code) ==
    /\ isListening' = FALSE
    /\ isManualStart' = FALSE
    /\ shouldSendOnStopRef' = IntentAfterError(shouldSendOnStopRef)
    /\ speechError' = ErrorAdvisory(code)
    /\ IF RequestsPermission(code)
       THEN permOnError < MaxPerm /\ permOnError' = permOnError + 1
       ELSE UNCHANGED permOnError
    /\ UNCHANGED <<inputValue, inputValueRef, isLoading, isLoadingRef, messagesRef,
                   finalTranscriptRef, seenFinalTexts, timers, request, permStart,
                   acceptedFinals, stopAndSendCalled, autoSends, endsHandled>>

(***************************************************************************)
(* handleSendMessage                                                       *)
(***************************************************************************)
\* data.response of a successful reply
ReplyText == <<"r">>

\* the user's entries in the conversation
UserEntries(messages) ==
    Cardinality({ i \in DOMAIN messages : messages[i].type = "user" })

\* line 1081: the entries of the conversation the history is taken from
HistoryWindow == 10

\* line 1085: the characters kept of the text of an entry
TextCap == 500

\* Array.prototype.slice(-n)
SliceLast(seq, n) ==
    IF Len(seq) > n THEN SubSeq(seq, Len(seq) - n + 1, Len(seq)) ELSE seq

\* String.prototype.slice(0, n)
SliceFirst(text, n) ==
    IF Len(text) > n THEN SubSeq(text, 1, n) ELSE text

\* line 1082: m.text.trim().length > 0
HasTextEntry(m) == Len(Trim(m.text)) > 0

\* faulty variant: the role is the type of the entry
HistoryRole_AsType(type) == type

\* line 1084: m.type === 'assistant' ? 'assistant' : 'user'
HistoryRole(type) == IF type = "assistant" THEN "assistant" ELSE "user"

\* lines 1080-1086
historyWindow(nextMessages) ==
    LET kept == SelectSeq(SliceLast(nextMessages, HistoryWindow), HasTextEntry)
    IN  [i \in 1..Len(kept) |->
            [role |-> HistoryRole(kept[i].type), text |-> SliceFirst(kept[i].text, TextCap)]]

\* line 1095: zoneIdFromUrl || acId
RequestZoneId(zoneId, acId) == IF zoneId # "" THEN zoneId ELSE acId

\* faulty variant: a send is accepted while a request is in flight
Rejects_BlankOnly(message, loading) == message = <<>>

\* line 1059: !message || isLoadingRef.current
Rejects(message, loading) == message = <<>> \/ loading

\* lines 1056-1100: up to the fetch being issued; at most `bound` messages
handleSendMessageWithin(raw, bound) ==
    LET message == Trim(raw)
        acId == selectedAcIdRef
    IN
    IF Rejects(message, isLoadingRef)
    THEN UNCHANGED <<reactVars, request>>
    ELSE IF acId = ""
    THEN /\ speechError' = MsgSelectAc
         /\ UNCHANGED <<inputValue, inputValueRef, isListening, isLoading,
                        isLoadingRef, messagesRef, request>>
    ELSE LET nextMessages == Append(messagesRef, [type |-> "user", text |-> message]) IN
         /\ UserEntries(messagesRef) < bound
         /\ messagesRef' = nextMessages
         /\ inputValue' = <<>>
         /\ inputValueRef' = <<>>
         /\ isLoading' = TRUE
         /\ isLoadingRef' = TRUE
         /\ request' = << [message |-> message,
                           zoneId |-> RequestZoneId(zoneIdFromUrl, acId),
                           acId |-> acId,
                           history |-> historyWindow(nextMessages)] >>
         /\ UNCHANGED <<isListening, speechError>>

handleSendMessage(raw) == handleSendMessageWithin(raw, MaxDispatches)

\* the send button (line 1372), enabled by line 1373; the click event is no string
ClickSendWithin(bound) ==
    /\ isZoneContext
    /\ UNCHANGED zoneVars
    /\ lastResult' = NoResult
    /\ Trim(inputValue) # <<>>
    /\ ~isLoading
    /\ handleSendMessageWithin(inputValueRef, bound)
    /\ UNCHANGED <<dictVars, stream, endsOwed, timers, permOnError, permStart, historyVars>>

ClickSend == ClickSendWithin(MaxDispatches)

\* handleSendMessage called with a text on a page opened without a zone id
SendWithoutZone(text) ==
    /\ ~isZoneContext
    /\ UNCHANGED zoneVars
    /\ lastResult' = NoResult
    /\ handleSendMessage(text)
    /\ UNCHANGED <<dictVars, stream, endsOwed, timers, permOnError, permStart, historyVars>>

\* lines 843-847: the deferred auto-send runs; at most `bound` messages
TimerFiresWithin(bound) ==
    /\ UNCHANGED zoneVars
    /\ lastResult' = NoResult
    /\ timers # <<>>
    /\ handleSendMessageWithin(Head(timers), bound)
    /\ timers' = Tail(timers)
    /\ UNCHANGED <<dictVars, stream, endsOwed, permOnError, permStart, historyVars>>

TimerFires == TimerFiresWithin(MaxDispatches)

\* lines 1089-1144: the fetch settles; outcome is the server's and the network's:
\* a reply, a reply of the fallback generator (without or with a message of its
\* own), a reply without text, a failure (rejected, non-2xx, unreadable)
FetchOutcomes == { "ok", "fallback", "error" }

\* data.llm.message of a reply of the fallback generator
LlmMessage(outcome) == IF outcome = "fallback-message" THEN "Quota exceeded." ELSE ""

\* faulty variant: the fallback is not reported
AdvisoryAfterReply_Silent(outcome, error) == error

\* lines 1108-1110: the warning published with a reply of the fallback generator
AdvisoryAfterReply(outcome, error) ==
    IF outcome \in {"fallback", "fallback-message"}
    THEN (IF LlmMessage(outcome) # "" THEN LlmMessage(outcome) ELSE MsgFallback)
    ELSE error

\* faulty variant: the failure takes the place of the user's message
MessagesAfterFailure_RollBack(messages, entry) ==
    Append(SubSeq(messages, 1, Len(messages) - 1), entry)

\* lines 1134-1140: the error entry is added to the conversation
MessagesAfterFailure(messages, entry) == Append(messages, entry)

\* faulty variant: the request is over and the flag is left set
LoadingAfterSettle_Kept(loading) == loading

\* lines 1141-1144: finally
LoadingAfterSettle(loading) == FALSE

\* faulty variant: a failed request is issued again
RequestAfterSettle_Retry(outcome, req) == IF outcome = "error" THEN req ELSE <<>>

\* lines 1102-1143: the one fetch is over, whatever its outcome
RequestAfterSettle(outcome, req) == <<>>

FetchSettles(outcome) ==
    /\ UNCHANGED zoneVars
    /\ lastResult' = NoResult
    /\ request # <<>>
    /\ request' = RequestAfterSettle(outcome, request)
    /\ isLoading' = LoadingAfterSettle(isLoading)
    /\ isLoadingRef' = LoadingAfterSettle(isLoadingRef)
    /\ IF outcome \in {"ok", "fallback", "fallback-message", "empty"}
       THEN /\ messagesRef' = Append(messagesRef,
                    [type |-> "assistant",
                     text |-> IF outcome = "empty" THEN <<>> ELSE ReplyText])
            /\ speechError' = AdvisoryAfterReply(outcome, speechError)
       ELSE /\ messagesRef' = MessagesAfterFailure(messagesRef,
                    [type |-> "error", text |-> <<"Error: ", outcome>>])
            /\ UNCHANGED speechError
    /\ UNCHANGED <<inputValue, inputValueRef, isListening, dictVars,
                   stream, endsOwed, timers, permOnError, permStart, historyVars>>

\* the textarea (lines 1337-1344) and the effect mirroring it (lines 754-756)
TypeText(t) ==
    /\ isZoneContext
    /\ UNCHANGED zoneVars
    /\ lastResult' = NoResult
    /\ ~isLoading
    /\ t # inputValue
    /\ inputValue' = t
    /\ inputValueRef' = t
    /\ UNCHANGED <<isListening, isLoading, isLoadingRef, speechError, messagesRef,
                   dictVars, platformVars, historyVars>>

(***************************************************************************)
(* handleVoiceInput and handleCancelListening                              *)
(***************************************************************************)
\* recognition.stop(): a graceful end is requested of a running stream
StreamAfterStop(st) == IF st \in {"starting", "active"} THEN "stopping" ELSE st

\* faulty variant: the request to send is not recorded
IntentAfterStop_Unset(shouldSend) == shouldSend

\* line 996: shouldSendOnStopRef.current = true
IntentAfterStop(shouldSend) == TRUE

\* lines 994-997: stop and send
StopAndSend ==
    /\ isZoneContext
    /\ UNCHANGED zoneVars
    /\ lastResult' = NoResult
    /\ isListening
    /\ shouldSendOnStopRef' = IntentAfterStop(shouldSendOnStopRef)
    /\ stream' = StreamAfterStop(stream)
    /\ stopAndSendCalled' = TRUE
    /\ UNCHANGED <<reactVars, finalTranscriptRef, isManualStart, seenFinalTexts,
                   endsOwed, timers, request, permOnError, permStart,
                   acceptedFinals, autoSends, endsHandled>>

\* what recognition.start() can do: it throws on a stream that is running;
\* after an error event and before the end event the platform decides
StartOutcomes(st) ==
    IF st = "idle" THEN {"started", "NotAllowedError"}
    ELSE IF st = "errored" THEN {"started", "InvalidStateError"}
    ELSE {"InvalidStateError"}

\* faulty variant: the advisory of an earlier session is left on display
ErrorAfterStart_Kept(error) == error

\* line 1000: setSpeechError('')
ErrorAfterStart(error) == ""

\* faulty variant: the marker of a failed start is left set
MarkerAfterFailedStart_Kept(marker) == marker

\* lines 1035-1037: the catch block clears the marker when it is done
MarkerAfterFailedStart(marker) == FALSE

\* lines 998-1038: start listening (the mic button, line 1348: disabled while loading)
StartListening(outcome) ==
    /\ isZoneContext
    /\ UNCHANGED zoneVars
    /\ lastResult' = NoResult
    /\ ~isListening
    /\ ~isLoading
    /\ outcome \in StartOutcomes(stream)
    /\ finalTranscriptRef' = <<>>
    /\ inputValueRef' = <<>>
    /\ inputValue' = <<>>
    /\ shouldSendOnStopRef' = FALSE
    /\ seenFinalTexts' = {}
    /\ IF outcome = "started"
       THEN /\ isListening' = TRUE
            /\ speechError' = ErrorAfterStart(speechError)
            /\ isManualStart' = TRUE
            /\ stream' = "starting"
            /\ IF stream = "errored"
               THEN endsOwed < MaxEndsOwed /\ endsOwed' = endsOwed + 1
               ELSE UNCHANGED endsOwed
            /\ UNCHANGED permStart
       ELSE /\ isListening' = FALSE
            /\ UNCHANGED <<stream, endsOwed>>
            /\ IF outcome = "NotAllowedError"
               THEN /\ permStart < MaxPerm
                    /\ permStart' = permStart + 1
                    /\ speechError' = MsgDeniedRequesting
                    /\ isManualStart' = TRUE
               ELSE /\ speechError' = MsgCouldNotStart
                    /\ isManualStart' = MarkerAfterFailedStart(TRUE)
                    /\ UNCHANGED permStart
    /\ acceptedFinals' = <<>>
    /\ stopAndSendCalled' = FALSE
    /\ autoSends' = 0
    /\ endsHandled' = 0
    /\ UNCHANGED <<isLoading, isLoadingRef, messagesRef, timers, request, permOnError>>

\* lines 1026-1037: the permission request of a failed start settles
PermStartSettles(granted) ==
    /\ UNCHANGED zoneVars
    /\ lastResult' = NoResult
    /\ permStart > 0
    /\ permStart' = permStart - 1
    /\ speechError' = IF granted THEN MsgGranted
                      ELSE getMicrophonePermissionErrorMessage("not-allowed")
    /\ isManualStart' = MarkerAfterFailedStart(isManualStart)
    /\ UNCHANGED <<inputValue, inputValueRef, isListening, isLoading, isLoadingRef,
                   messagesRef, finalTranscriptRef, shouldSendOnStopRef, seenFinalTexts,
                   stream, endsOwed, timers, request, permOnError, historyVars>>

\* lines 928-938: the permission request of a permission error settles
PermOnErrorSettles(granted) ==
    /\ UNCHANGED zoneVars
    /\ lastResult' = NoResult
    /\ permOnError > 0
    /\ permOnError' = permOnError - 1
    /\ speechError' = IF ResultField(granted, "granted") THEN MsgGranted
                      ELSE getMicrophonePermissionErrorMessage("not-allowed")
    /\ UNCHANGED <<inputValue, inputValueRef, isListening, isLoading, isLoadingRef,
                   messagesRef, dictVars,
                   stream, endsOwed, timers, request, permStart, historyVars>>

\* faulty variant: cancel forgets the dedup set
SeenAfterCancel_Kept(seen) == seen

\* lines 1050-1052: the dedup set after cancel
SeenAfterCancel(seen) == {}

\* lines 1045-1048: what cancel leaves of the transcript state
ClearedText == <<>>

\* lines 1042-1054: the handler, which looks at no state before it acts
handleCancelListeningBody ==
    /\ UNCHANGED zoneVars
    /\ lastResult' = NoResult
    /\ shouldSendOnStopRef' = FALSE
    /\ finalTranscriptRef' = ClearedText
    /\ inputValueRef' = ClearedText
    /\ inputValue' = ClearedText
    /\ seenFinalTexts' = SeenAfterCancel(seenFinalTexts)
    /\ stream' = StreamAfterStop(stream)
    /\ acceptedFinals' = <<>>
    /\ UNCHANGED <<isListening, isLoading, isLoadingRef, speechError, messagesRef,
                   isManualStart, endsOwed, timers, request, permOnError, permStart,
                   stopAndSendCalled, autoSends, endsHandled>>

\* the Cancel button, which is part of the listening overlay (lines 1239, 1258)
handleCancelListening ==
    /\ isZoneContext
    /\ isListening
    /\ handleCancelListeningBody

\* the handler called while the session is not listening
CancelWhenIdle ==
    /\ ~isListening
    /\ handleCancelListeningBody

(***************************************************************************)
(* The recognition stream delivering its events                            *)
(***************************************************************************)
\* the start event of a started stream
OnStart ==
    /\ UNCHANGED zoneVars
    /\ lastResult' = NoResult
    /\ stream = "starting"
    /\ stream' = "active"
    /\ onstart
    /\ UNCHANGED endsOwed

\* a start event the user did not ask for (mobile auto-restart)
OnAutoRestart ==
    /\ UNCHANGED zoneVars
    /\ lastResult' = NoResult
    /\ stream = "active"
    /\ onstart
    /\ UNCHANGED <<stream, endsOwed>>

\* a result event; a graceful stop still flushes results
OnResult(event) ==
    /\ UNCHANGED zoneVars
    /\ lastResult' = [hadText |-> \E i \in 1..Len(event) : Trim(event[i].transcript) # <<>>,
                      interim |-> Join(InterimChunks(event, 1))]
    /\ stream \in {"active", "stopping"}
    /\ onresult(event)
    /\ UNCHANGED <<stream, endsOwed>>

OnError(code) ==
    /\ UNCHANGED zoneVars
    /\ lastResult' = NoResult
    /\ stream \in {"starting", "active", "stopping"}
    /\ stream' = "errored"
    /\ onerror(code)
    /\ UNCHANGED endsOwed

\* the end event of the stream; the platform may deliver it once more later
OnEnd(again) ==
    /\ UNCHANGED zoneVars
    /\ lastResult' = NoResult
    /\ stream \in {"active", "stopping", "errored"}
    /\ stream' = "idle"
    /\ IF again
       THEN endsOwed < MaxEndsOwed /\ endsOwed' = endsOwed + 1
       ELSE UNCHANGED endsOwed
    /\ onend

\* an end event delivered again, or that of a run a later start superseded
OnOwedEnd ==
    /\ UNCHANGED zoneVars
    /\ lastResult' = NoResult
    /\ endsOwed > 0
    /\ endsOwed' = endsOwed - 1
    /\ onend
    /\ UNCHANGED stream

Next ==
    \/ \E outcome \in {"started", "InvalidStateError"} : StartListening(outcome)
    \/ StopAndSend
    \/ handleCancelListening
    \/ ClickSend
    \/ \E t \in TypedTexts : TypeText(t)
    \/ TimerFires
    \/ \E outcome \in FetchOutcomes : FetchSettles(outcome)
    \/ OnStart
    \/ OnAutoRestart
    \/ \E event \in SessionEvents : OnResult(event)
    \/ \E code \in SessionErrorCodes : OnError(code)
    \/ \E again \in BOOLEAN : OnEnd(again)
    \/ OnOwedEnd

\* the dictation session and the dispatch of messages: small event alphabet,
\* one error code, no permission prompts
Spec == Init /\ [][Next]_vars

\* one listening episode after another, with the full event alphabet and
\* without sends, errors or permission prompts
NextReconciler ==
    \/ StartListening("started")
    \/ handleCancelListening
    \/ OnStart
    \/ OnAutoRestart
    \/ \E event \in Events : OnResult(event)
    \/ OnEnd(FALSE)

SpecReconciler == Init /\ [][NextReconciler]_vars

\* the dictation session with every error code and the permission prompts,
\* without typing and without sends
NextErrors ==
    \/ \E outcome \in {"started", "NotAllowedError", "InvalidStateError"} : StartListening(outcome)
    \/ StopAndSend
    \/ handleCancelListening
    \/ \E granted \in BOOLEAN : PermStartSettles(granted)
    \/ \E granted \in BOOLEAN : PermOnErrorSettles(granted)
    \/ OnStart
    \/ OnAutoRestart
    \/ \E event \in SessionEvents : OnResult(event)
    \/ \E code \in ErrorCodes : OnError(code)
    \/ \E again \in BOOLEAN : OnEnd(again)
    \/ OnOwedEnd

SpecErrors == Init /\ [][NextErrors]_vars

\* the handlers as operations: typing, listening episodes, cancel called in
\* any state of the session, and a send on a page without a zone id
NextHandlers ==
    \/ StartListening("started")
    \/ handleCancelListening
    \/ CancelWhenIdle
    \/ \E text \in TypedTexts : SendWithoutZone(text)
    \/ \E outcome \in FetchOutcomes : FetchSettles(outcome)
    \/ \E t \in TypedTexts : TypeText(t)
    \/ OnStart
    \/ OnAutoRestart
    \/ \E event \in Events : OnResult(event)
    \/ OnEnd(FALSE)

SpecHandlers == Init /\ [][NextHandlers]_vars

\* a text longer than the history keeps of an entry
LongText == [i \in 1..(TextCap + 1) |-> "c"]

\* what the user types in the conversation specification
DispatchTexts == { LongText }

\* what the server and the network make of a request there
DispatchOutcomes == { "ok", "empty", "error", "fallback", "fallback-message" }

\* a conversation of typed messages, long enough to leave the history window
NextDispatch ==
    \/ \E t \in DispatchTexts : TypeText(t)
    \/ ClickSendWithin(MaxConversation)
    \/ \E outcome \in DispatchOutcomes : FetchSettles(outcome)

SpecDispatch == Init /\ [][NextDispatch]_vars

\* the same conversation, with an HTTP call that resolves or rejects in the end
SpecDispatchFair ==
    /\ Init /\ [][NextDispatch]_vars
    /\ WF_vars(\E outcome \in DispatchOutcomes : FetchSettles(outcome))

\* a dictation beside the typed send: the deferred send of a stop-and-send can
\* fire while the request of a message is in flight
NextOverlap ==
    \/ StartListening("started")
    \/ StopAndSend
    \/ OnStart
    \/ \E event \in SessionEvents : OnResult(event)
    \/ OnEnd(FALSE)
    \/ \E t \in TypedTexts : TypeText(t)
    \/ ClickSendWithin(MaxOverlap)
    \/ TimerFiresWithin(MaxOverlap)
    \/ \E outcome \in {"ok", "error"} : FetchSettles(outcome)

SpecOverlap == Init /\ [][NextOverlap]_vars

\* the mic button, pressed while the dictations have messages left to send
StartWithin(outcome, bound) ==
    /\ UserEntries(messagesRef) + Len(timers) < bound
    /\ StartListening(outcome)

\* the end event of a stream that was asked to stop or that has failed
StreamEnds ==
    /\ stream \in {"stopping", "errored"}
    /\ OnEnd(FALSE)

\* one dictation after another, each ended by stop-and-send, by cancel, by an
\* error or by the stream itself, with the deferred sends and their requests
NextLifecycle ==
    \/ \E outcome \in {"started", "InvalidStateError"} : StartWithin(outcome, MaxLifecycle)
    \/ StopAndSend
    \/ handleCancelListening
    \/ OnStart
    \/ \E event \in SessionEvents : OnResult(event)
    \/ \E code \in SessionErrorCodes : OnError(code)
    \/ OnEnd(FALSE)
    \/ OnOwedEnd
    \/ TimerFiresWithin(MaxLifecycle)
    \/ \E outcome \in {"ok", "error"} : FetchSettles(outcome)

\* the stream ends once it was asked to stop or has failed, and a timer that
\* was set fires
SpecLifecycle ==
    /\ Init /\ [][NextLifecycle]_vars
    /\ WF_vars(StreamEnds)
    /\ WF_vars(TimerFiresWithin(MaxLifecycle))

(***************************************************************************)
(* Notions the properties are stated in                                    *)
(***************************************************************************)
\* the words of a text (split on spaces)
RECURSIVE Words(_)
Words(text) ==
    LET t == TrimStart(text) IN
    IF t = <<>> THEN {}
    ELSE LET n == IF \E i \in 1..Len(t) : t[i] = SP
                  THEN (CHOOSE i \in 1..Len(t) : t[i] = SP /\ \A j \in 1..(i - 1) : t[j] # SP) - 1
                  ELSE Len(t)
         IN {SubSeq(t, 1, n)} \cup Words(SubSeq(t, n + 1, Len(t)))

\* how often the key occurs in the text, compared case-insensitively
Occurrences(key, text) ==
    Cardinality({ i \in 1..(Len(text) - Len(key) + 1) :
                    ToLowerCase(SubSeq(text, i, i + Len(key) - 1)) = key })

\* a step in which the onend callback runs
OnEndStep == (\E again \in BOOLEAN : OnEnd(again)) \/ OnOwedEnd

\* finalTranscriptRef.current.trim() || inputValueRef.current.trim(), as the
\* specification of the stream end states it
ExpectedTextToSend ==
    IF Trim(finalTranscriptRef) # <<>> THEN Trim(finalTranscriptRef) ELSE Trim(inputValueRef)

(***************************************************************************)
(* C1: within a dictation, finalText is the space-joined list of the       *)
(* distinct final segment texts accepted so far, in first-acceptance order *)
(* (Scenario B: 'turn it up', then 'turn it up' + 'please', gives          *)
(* 'turn it up please').  The code replaces finalText by the finals that   *)
(* are new in the last event, so this fails.                               *)
(***************************************************************************)
C1_FinalTextJoinsAcceptedFinals ==
    (isListening /\ stream = "active") => finalTranscriptRef = Join(acceptedFinals)

(***************************************************************************)
(* C2: a final text delivered as a final segment in two separate events of *)
(* a dictation is contained in finalText exactly once afterwards.  Fails   *)
(* with C1: the redelivered text is dropped from finalText when the event  *)
(* that redelivers it brings another, new final.                           *)
(***************************************************************************)
C2_RedeliveredFinalOccursOnce ==
    [][\A event \in Events :
          (isListening /\ stream = "active" /\ OnResult(event)) =>
            \A key \in FinalKeys(event) \cap seenFinalTexts :
                Occurrences(key, finalTranscriptRef') = 1]_vars

(***************************************************************************)
(* C3: a dictation that was stopped with stop-and-send and has text hands  *)
(* it to handleSendMessage exactly once, however many onend notifications  *)
(* the stream delivers: the first end with the intent schedules one send,  *)
(* and no dictation ever schedules a second one.                           *)
(***************************************************************************)
C3_ExactlyOnceDispatch ==
    /\ [](autoSends <= 1)
    /\ [][(OnEndStep /\ shouldSendOnStopRef /\ ExpectedTextToSend # <<>>)
            => (autoSends = 0 /\ autoSends' = 1 /\ Len(timers') = Len(timers) + 1)]_vars

\* a second onend was handled in a dictation that scheduled its send
C3_Witness == autoSends = 1 /\ endsHandled = 2 /\ stopAndSendCalled

(***************************************************************************)
(* C4: in a dictation in which stop-and-send was never requested the       *)
(* intent is false and no onend has scheduled a send, whatever the texts.  *)
(***************************************************************************)
C4_NoSendWithoutIntent ==
    ~stopAndSendCalled => (~shouldSendOnStopRef /\ autoSends = 0)

\* the stream ended on its own with text in the input: kept, not sent
C4_Witness ==
    /\ ~stopAndSendCalled /\ endsHandled >= 1 /\ ~isListening
    /\ finalTranscriptRef # <<>> /\ inputValue # <<>> /\ timers = <<>>

(***************************************************************************)
(* C5 as stated: right after cancel() in Listening the transcript state is *)
(* cleared, the intent is false and the session state is Idle.             *)
(***************************************************************************)
C5_CancelLeavesIdle ==
    [][handleCancelListening =>
         /\ finalTranscriptRef' = <<>> /\ inputValue' = <<>> /\ inputValueRef' = <<>>
         /\ seenFinalTexts' = {} /\ ~shouldSendOnStopRef'
         /\ ~isListening']_vars

(***************************************************************************)
(* C5 amended: right after cancel() in Listening finalText, displayText    *)
(* and the dedup set are empty and the intent is false; the session state  *)
(* is still Listening, and it leaves Listening only in a step in which the *)
(* stream's onend or onerror runs.                                         *)
(***************************************************************************)
C5_CancelClearsAndWaitsForEnd ==
    /\ [][handleCancelListening =>
            /\ finalTranscriptRef' = <<>> /\ inputValue' = <<>> /\ inputValueRef' = <<>>
            /\ seenFinalTexts' = {} /\ ~shouldSendOnStopRef'
            /\ isListening']_vars
    /\ [][(isListening /\ ~isListening') =>
            (OnEndStep \/ \E code \in ErrorCodes : OnError(code))]_vars

\* cancel has acted: the stream was asked to stop, nothing is to be sent
C5_Witness ==
    /\ isListening /\ stream = "stopping" /\ ~stopAndSendCalled /\ endsHandled = 0
    /\ finalTranscriptRef = <<>> /\ inputValue = <<>> /\ seenFinalTexts = {}

C7_NoEmptyDispatch ==
    /\ [](/\ \A i \in DOMAIN timers : Trim(timers[i]) # <<>>
          /\ \A i \in DOMAIN messagesRef :
                messagesRef[i].type = "user" => Trim(messagesRef[i].text) # <<>>
          /\ \A i \in DOMAIN request : Trim(request[i].message) # <<>>)
    /\ [][(OnEndStep /\ shouldSendOnStopRef /\ ExpectedTextToSend = <<>>)
            => UNCHANGED <<timers, messagesRef, request>>]_vars

\* Scenario C: start, no text, stop-and-send, stream end: nothing was sent
C7_Witness ==
    /\ stopAndSendCalled /\ endsHandled = 1 /\ ~isListening /\ speechError = ""
    /\ acceptedFinals = <<>> /\ autoSends = 0 /\ timers = <<>> /\ messagesRef = <<>>

(***************************************************************************)
(* C8: from the handling of a stream error until the stream ends the       *)
(* intent is false and the session is not listening, and that stream end   *)
(* sends nothing, also when stop-and-send was requested before the error.  *)
(***************************************************************************)
C8_NoAutoSendAfterError ==
    /\ [](stream = "errored" => (~shouldSendOnStopRef /\ ~isListening))
    /\ [][(stream = "errored" /\ OnEndStep /\ stream' = "idle")
            => UNCHANGED <<timers, messagesRef, request, autoSends>>]_vars

\* stop-and-send, then an error, then the end: the text is kept, not sent
C8_Witness ==
    /\ stopAndSendCalled /\ speechError = MsgNoSpeech /\ stream = "idle"
    /\ endsHandled = 1 /\ autoSends = 0 /\ inputValue # <<>> /\ timers = <<>>

(***************************************************************************)
(* C9: a stream end with the intent hands finalText.trim(), or             *)
(* displayText.trim() when that is empty, to the deferred send, which      *)
(* passes it to handleSendMessage; finalText, displayText and the intent   *)
(* are cleared whether or not there was anything to send.                  *)
(***************************************************************************)
C9_StreamEndWithIntent ==
    /\ [][(OnEndStep /\ shouldSendOnStopRef) =>
            /\ finalTranscriptRef' = <<>> /\ inputValue' = <<>> /\ inputValueRef' = <<>>
            /\ ~shouldSendOnStopRef'
            /\ timers' = IF ExpectedTextToSend # <<>>
                         THEN Append(timers, ExpectedTextToSend) ELSE timers]_vars
    /\ [][(TimerFires /\ ~isLoadingRef) =>
            messagesRef' = Append(messagesRef, [type |-> "user", text |-> Head(timers)])]_vars

\* the text of the pending send came from displayText: no final was accepted
C9_Witness ==
    /\ stopAndSendCalled /\ autoSends = 1 /\ Len(timers) = 1 /\ acceptedFinals = <<>>
    /\ ~shouldSendOnStopRef /\ inputValue = <<>> /\ finalTranscriptRef = <<>>

(***************************************************************************)
(* C10: a stream end without the intent leaves displayText and finalText   *)
(* as they are when displayText has text, clears both when displayText is  *)
(* empty or whitespace-only, sends nothing and leaves the session Idle.    *)
(***************************************************************************)
C10_StreamEndWithoutIntent ==
    [][(OnEndStep /\ ~shouldSendOnStopRef) =>
         /\ ~isListening'
         /\ UNCHANGED <<timers, messagesRef, request, shouldSendOnStopRef>>
         /\ IF Trim(inputValueRef) # <<>>
            THEN UNCHANGED <<inputValue, inputValueRef, finalTranscriptRef>>
            ELSE finalTranscriptRef' = <<>> /\ inputValue' = <<>> /\ inputValueRef' = <<>>]_vars

\* the stream ended without the intent and the dictated text is still there
C10_Witness ==
    /\ ~isListening /\ endsHandled >= 1 /\ ~stopAndSendCalled /\ stream = "idle"
    /\ acceptedFinals # <<>> /\ finalTranscriptRef = Join(acceptedFinals)
    /\ inputValue = finalTranscriptRef

(***************************************************************************)
(* C11 as stated: the session is destroyed (state Idle, finalText empty,   *)
(* dedup set empty) by cancel(), by a stream end that hands text to the    *)
(* dispatch, and by a stream end without intent and without residual text. *)
(***************************************************************************)
C11_SessionDestroyed ==
    [][(\/ handleCancelListening
        \/ (OnEndStep /\ shouldSendOnStopRef /\ ExpectedTextToSend # <<>>)
        \/ (OnEndStep /\ ~shouldSendOnStopRef /\ Trim(inputValueRef) = <<>>))
         => (~isListening' /\ finalTranscriptRef' = <<>> /\ seenFinalTexts' = {})]_vars

(***************************************************************************)
(* C11 amended: cancel() empties finalText and the dedup set and leaves    *)
(* the state Listening until the stream ends; a stream end that hands text *)
(* to the dispatch, and one without intent and without residual text,      *)
(* leave the state Idle and finalText empty and do not touch the dedup     *)
(* set, which is emptied only by cancel() and by the next start().         *)
(***************************************************************************)
C11_SessionReset ==
    /\ [][handleCancelListening =>
            (isListening' /\ finalTranscriptRef' = <<>> /\ seenFinalTexts' = {})]_vars
    /\ [][((OnEndStep /\ shouldSendOnStopRef /\ ExpectedTextToSend # <<>>)
           \/ (OnEndStep /\ ~shouldSendOnStopRef /\ Trim(inputValueRef) = <<>>))
            => (~isListening' /\ finalTranscriptRef' = <<>>
                /\ seenFinalTexts' = seenFinalTexts)]_vars
    /\ [][(seenFinalTexts # {} /\ seenFinalTexts' = {}) =>
            (handleCancelListening
             \/ \E outcome \in {"started", "NotAllowedError", "InvalidStateError"} :
                    StartListening(outcome))]_vars

\* the stream ended and handed its text over; the dedup set still holds the key
C11_Witness ==
    /\ ~isListening /\ stream = "idle" /\ autoSends = 1 /\ endsHandled = 1
    /\ finalTranscriptRef = <<>> /\ seenFinalTexts # {}

(***************************************************************************)
(* C12: the stream's start() is invoked only when no started stream is     *)
(* still to end: a start request made while the stream has not delivered   *)
(* its onEnd (also after its onError was handled) does not happen, or      *)
(* changes nothing.  handleVoiceInput looks only at isListening, which     *)
(* onerror has already set to false, so it clears the transcript state and *)
(* calls start() before the errored stream has ended: this fails.          *)
(***************************************************************************)
C12_AtMostOneStream ==
    [][\A outcome \in {"started", "NotAllowedError", "InvalidStateError"} :
          (StartListening(outcome) /\ stream # "idle") =>
            UNCHANGED <<stream, endsOwed, finalTranscriptRef, inputValue, inputValueRef,
                        seenFinalTexts, shouldSendOnStopRef, isManualStart>>]_vars

(***************************************************************************)
(* C13: cancel() called in Idle is a no-op: displayText (retained or typed *)
(* text), finalText, the dedup set, the intent and the state are left as   *)
(* they are; and a second cancel() right after a first leaves what the     *)
(* first left.  handleCancelListening clears the text whatever the state,  *)
(* so the first part fails.                                                *)
(***************************************************************************)
C13_CancelInIdleIsNoOp ==
    /\ [][CancelWhenIdle =>
            UNCHANGED <<inputValue, inputValueRef, finalTranscriptRef, seenFinalTexts,
                        shouldSendOnStopRef, isListening, stream>>]_vars
    /\ [][(handleCancelListening \/ CancelWhenIdle) =>
            /\ finalTranscriptRef' = ClearedText /\ inputValue' = ClearedText
            /\ inputValueRef' = ClearedText
            /\ seenFinalTexts' = SeenAfterCancel(seenFinalTexts')
            /\ ~shouldSendOnStopRef'
            /\ stream' = StreamAfterStop(stream')]_vars

C15_StartClears ==
    [][StartListening("started") =>
         /\ finalTranscriptRef' = <<>> /\ inputValue' = <<>> /\ inputValueRef' = <<>>
         /\ seenFinalTexts' = {} /\ speechError' = "" /\ ~shouldSendOnStopRef'
         /\ isListening']_vars

\* a start after an earlier session, whose end notification is still owed
C15_Witness ==
    /\ isListening /\ stream = "starting" /\ isManualStart /\ endsOwed = 1
    /\ UserEntries(messagesRef) = 1
    /\ speechError = "" /\ seenFinalTexts = {} /\ inputValue = <<>>

(***************************************************************************)
(* C16: whatever the code of a stream error (also a missing one), after    *)
(* onerror the state is Idle and an advisory is on display; the advisory   *)
(* goes away only when a start() succeeds or a RecognitionEvent arrives.   *)
(***************************************************************************)
C16_ErrorsRecoveredLocally ==
    /\ [][\A code \in ErrorCodes :
            OnError(code) => (~isListening' /\ speechError' # "")]_vars
    /\ [](stream = "errored" => (~isListening /\ speechError # ""))
    /\ [][(speechError # "" /\ speechError' = "") =>
            (StartListening("started") \/ \E event \in SessionEvents : OnResult(event))]_vars

\* an error event without a code was handled
C16_Witness ==
    /\ ~isListening /\ stream = "errored" /\ speechError = MsgVoiceError("unknown")

(***************************************************************************)
(* C17: a stream error with a permission code asks the permission          *)
(* collaborator once more; the answer, granted or denied, leaves the       *)
(* stream and the session state alone; and a stream is started only by the *)
(* user's start().                                                         *)
(***************************************************************************)
C17_PermissionDeniedNoRestart ==
    /\ [][\A code \in {"not-allowed", "service-not-allowed"} :
            OnError(code) => permOnError' = permOnError + 1]_vars
    /\ [][\A granted \in BOOLEAN :
            PermOnErrorSettles(granted) =>
              UNCHANGED <<stream, endsOwed, isListening, isManualStart,
                          finalTranscriptRef, seenFinalTexts, shouldSendOnStopRef>>]_vars
    /\ [][(stream' = "starting" /\ stream # "starting") => StartListening("started")]_vars

\* the permission asked for after a permission error was answered
C17_Witness ==
    /\ stream = "errored" /\ ~isListening /\ permOnError = 0 /\ permStart = 0
    /\ endsOwed = 0 /\ speechError = MsgPermissionRequired

(***************************************************************************)
(* C18: a request to the feedback endpoint is issued only in a step of the *)
(* send button or of a deferred send, one request for one such step, with  *)
(* none in flight before it; a deferred send is handed over once; and when *)
(* a request settles, failed or not, none is in flight and no send is      *)
(* scheduled.                                                              *)
(***************************************************************************)
C18_OneRequestNoRetry ==
    /\ [](Len(request) <= 1)
    /\ [][(request' # request /\ request' # <<>>) =>
            /\ ClickSend \/ TimerFires
            /\ request = <<>>
            /\ UserEntries(messagesRef') = UserEntries(messagesRef) + 1]_vars
    /\ [][TimerFires => Len(timers') = Len(timers) - 1]_vars
    /\ [][\A outcome \in FetchOutcomes :
            FetchSettles(outcome) => (request' = <<>> /\ UNCHANGED timers)]_vars

\* the request of a stop-and-send failed; nothing is in flight or scheduled
C18_Witness ==
    /\ autoSends = 1 /\ timers = <<>> /\ request = <<>> /\ ~isLoading
    /\ Len(messagesRef) = 2 /\ messagesRef[2].type = "error"

(***************************************************************************)
(* C19: a request carries a zone id that is not empty and that is the one  *)
(* the page was opened with, never a default put in its place; a send on a *)
(* page without a zone id is rejected: no request, no entry added to the   *)
(* conversation, the input text kept, an advisory published.  Without a    *)
(* zone id handleSendMessage sends with the default unit id 'AC-001', so   *)
(* this fails.                                                             *)
(***************************************************************************)
C19_ZoneIdRequired ==
    /\ [](\A i \in DOMAIN request :
            request[i].zoneId # "" /\ request[i].zoneId = zoneIdFromUrl)
    /\ [][\A text \in TypedTexts :
            (SendWithoutZone(text) /\ Trim(text) # <<>>) =>
              /\ UNCHANGED <<request, messagesRef, inputValue, inputValueRef>>
              /\ speechError' = MsgSelectAc]_vars

(***************************************************************************)
(* C20: the history of a request has at most 10 entries; they are the      *)
(* entries with text among the 10 most recent of the conversation (the     *)
(* message being sent is the last of them), in conversation order; each    *)
(* text is the first 500 characters of the entry's text at most; each role *)
(* is 'user' or 'assistant', and 'assistant' exactly for assistant         *)
(* replies.                                                                *)
(***************************************************************************)
C20_HistoryWindow ==
    \A r \in DOMAIN request :
        LET history == request[r].history
            n == Len(messagesRef)
            recent == { i \in 1..n : i > n - 10 }
            withText == { i \in recent : Trim(messagesRef[i].text) # <<>> }
        IN  /\ Len(history) <= 10
            /\ Len(history) = Cardinality(withText)
            /\ \A j \in 1..Len(history) :
                 LET i == CHOOSE k \in withText :
                              Cardinality({ m \in withText : m <= k }) = j
                     text == messagesRef[i].text
                 IN  /\ Len(history[j].text) <= 500
                     /\ history[j].text =
                          [c \in 1..(IF Len(text) < 500 THEN Len(text) ELSE 500) |-> text[c]]
                     /\ history[j].role \in {"user", "assistant"}
                     /\ history[j].role = "assistant" <=> messagesRef[i].type = "assistant"

\* the sixth message is being sent: the conversation has left the window, an
\* empty reply and an error entry are in it, and a text was cut
C20_Witness ==
    /\ request # <<>> /\ Len(messagesRef) = 11
    /\ Len(request[1].history) = 9
    /\ \E i \in 2..11 : messagesRef[i].type = "error"
    /\ \E j \in DOMAIN request[1].history :
          Len(request[1].history[j].text) = 500
    /\ Len(messagesRef[11].text) = 501

(***************************************************************************)
(* C21: the conversation only grows: no step removes or changes an entry   *)
(* that is in it; a request that fails adds exactly one entry, an error    *)
(* entry, right after the user's message of that request, and leaves the   *)
(* advisory of the dictation as it was.                                    *)
(***************************************************************************)
C21_FailureAppendsOneErrorEntry ==
    /\ [][/\ Len(messagesRef') >= Len(messagesRef)
          /\ SubSeq(messagesRef', 1, Len(messagesRef)) = messagesRef]_vars
    /\ [][FetchSettles("error") =>
            /\ Len(messagesRef') = Len(messagesRef) + 1
            /\ messagesRef'[Len(messagesRef')].type = "error"
            /\ messagesRef[Len(messagesRef)] =
                 [type |-> "user", text |-> request[1].message]
            /\ speechError' = speechError]_vars

\* a request failed while a warning of an earlier reply was on display
C21_Witness ==
    /\ Len(messagesRef) = 4 /\ messagesRef[3].type = "user"
    /\ messagesRef[4].type = "error" /\ speechError = MsgFallback /\ ~isLoading

(***************************************************************************)
(* C22: a reply of the fallback generator (llm.ok false, without or with a *)
(* message of its own) is added to the conversation as an assistant entry  *)
(* and a non-empty warning is published; the dispatch is over (not         *)
(* loading, nothing in flight); and with the warning on display a text in  *)
(* the input can be sent.                                                  *)
(***************************************************************************)
C22_FallbackReplyWithWarning ==
    /\ [][\A outcome \in {"fallback", "fallback-message"} :
            FetchSettles(outcome) =>
              /\ messagesRef' = Append(messagesRef, [type |-> "assistant", text |-> ReplyText])
              /\ speechError' # ""
              /\ ~isLoading' /\ ~isLoadingRef' /\ request' = <<>>]_vars
    /\ []((/\ speechError # "" /\ request = <<>> /\ Trim(inputValue) # <<>>
           /\ isZoneContext /\ UserEntries(messagesRef) < MaxConversation)
            => ENABLED ClickSendWithin(MaxConversation))
    /\ [][(ClickSendWithin(MaxConversation) /\ speechError # "") =>
            (Len(request') = 1 /\ speechError' = speechError)]_vars

\* the next message is on its way while the warning of the reply is on display
C22_Witness ==
    /\ speechError = "Quota exceeded." /\ request # <<>> /\ isLoading
    /\ Len(messagesRef) = 3 /\ messagesRef[2] = [type |-> "assistant", text |-> ReplyText]

(***************************************************************************)
(* C23: after a RecognitionEvent with at least one non-empty segment       *)
(* displayText is trim(finalText + " " + the space-joined trimmed interim  *)
(* segments of that event), with finalText as the event left it.  onresult *)
(* writes displayText only when that text is not empty: an event whose     *)
(* only text is a final segment the dedup set discards, delivered after an *)
(* onend has emptied finalText, leaves the displayed text as it was, so    *)
(* this fails.                                                             *)
(***************************************************************************)
C23_DisplayIsFinalPlusInterim ==
    lastResult.hadText =>
        /\ inputValue = Trim(finalTranscriptRef \o <<SP>> \o lastResult.interim)
        /\ inputValueRef = inputValue

(***************************************************************************)
(* C24: a RecognitionEvent without segments, or whose segments are all     *)
(* empty or whitespace-only, changes nothing: finalText, displayText, the  *)
(* dedup set, the intent, the session state and errorMessage are as they   *)
(* were.  onresult rewrites displayText from finalText alone when the      *)
(* event brings nothing (interim text on display is dropped, a cleared     *)
(* input is filled again) and ends with setSpeechError('') whatever the    *)
(* event held: this fails.                                                 *)
(***************************************************************************)
C24_EmptyEventIsNoOp ==
    [][\A event \in SessionEvents :
          (OnResult(event) /\ \A i \in DOMAIN event : Trim(event[i].transcript) = <<>>)
            => UNCHANGED <<finalTranscriptRef, inputValue, inputValueRef, seenFinalTexts,
                           shouldSendOnStopRef, isListening, speechError>>]_vars

\* the text holds t, letter for letter
ExactOccurs(t, text) ==
    \E i \in 1..(Len(text) - Len(t) + 1) : SubSeq(text, i, i + Len(t) - 1) = t

(***************************************************************************)
(* C25: finals are compared without regard to letter case and emitted as   *)
(* they were first delivered: the event that accepts a final puts its text *)
(* in finalText in the casing of that delivery; whatever finalText holds   *)
(* is made of accepted finals in the casing of their first delivery; and   *)
(* an event with text that brings no final that is new (a final that       *)
(* differs from an accepted one only in letter case is not new) leaves     *)
(* finalText as it was.                                                    *)
(***************************************************************************)
C25_DedupIgnoresCaseKeepsCasing ==
    /\ [](\/ finalTranscriptRef = <<>>
          \/ \E i, j \in DOMAIN acceptedFinals :
                finalTranscriptRef = Join(SubSeq(acceptedFinals, i, j)))
    /\ [][\A k \in (Len(acceptedFinals) + 1)..Len(acceptedFinals') :
            ExactOccurs(acceptedFinals'[k], finalTranscriptRef')]_vars
    /\ [][(lastResult'.hadText /\ acceptedFinals' = acceptedFinals)
            => finalTranscriptRef' = finalTranscriptRef]_vars

\* the key of the accepted final is 'a', the text emitted is 'A'
C25_Witness ==
    /\ isListening /\ stream = "active" /\ lastResult.hadText
    /\ acceptedFinals = << <<"A">> >> /\ seenFinalTexts = { <<"a">> }
    /\ finalTranscriptRef = <<"A">> /\ inputValue = <<"A">>

(***************************************************************************)
(* C26: the events the stream delivers after cancel() and before its onEnd *)
(* change neither finalText nor displayText nor the dedup set, and both    *)
(* texts are empty as long as the cancelled stream is stopping (in the     *)
(* listening episodes of SpecReconciler a stream is stopping only through  *)
(* cancel()).  cancel() stops the stream with stop(), which flushes what   *)
(* it has, and onresult does not look at whether the dictation was         *)
(* cancelled: this fails.                                                  *)
(***************************************************************************)
C26_NoResultsAfterCancel ==
    /\ [][\A event \in Events :
            (OnResult(event) /\ stream = "stopping") =>
              UNCHANGED <<finalTranscriptRef, inputValue, inputValueRef, seenFinalTexts>>]_vars
    /\ [](stream = "stopping" =>
            (finalTranscriptRef = <<>> /\ inputValue = <<>> /\ inputValueRef = <<>>))

(***************************************************************************)
(* C28: when the session is Idle the intent is false; the intent is true   *)
(* only in a dictation that is Listening, in which stopAndSend() was       *)
(* called and whose stream was asked to stop and has neither ended nor     *)
(* failed since.                                                           *)
(***************************************************************************)
C28_IntentOnlyWhileStopping ==
    /\ ~isListening => ~shouldSendOnStopRef
    /\ shouldSendOnStopRef => (stopAndSendCalled /\ stream = "stopping")

\* a dictation stopped with stopAndSend() has ended, and a second end
\* notification was handled in Idle
C28_Witness ==
    /\ ~isListening /\ ~shouldSendOnStopRef /\ stopAndSendCalled /\ stream = "idle"
    /\ endsHandled = 2 /\ autoSends = 0 /\ speechError = ""

(***************************************************************************)
(* C29: at most one request is in flight; the in-flight flag is set in the *)
(* step that issues the request and cleared only in the step in which the  *)
(* request settles; while a request is in flight the send button accepts   *)
(* no send, and a deferred send that fires is dropped: no request, no      *)
(* entry added to the conversation, the input text as it was.              *)
(***************************************************************************)
C29_OneRequestInFlight ==
    /\ [](/\ Len(request) <= 1
          /\ (request # <<>>) <=> isLoadingRef
          /\ isLoading <=> isLoadingRef
          /\ request # <<>> => ~ENABLED ClickSendWithin(MaxOverlap))
    /\ [][(TimerFiresWithin(MaxOverlap) /\ request # <<>>) =>
            UNCHANGED <<request, messagesRef, inputValue, inputValueRef, isLoadingRef>>]_vars
    /\ [][(~isLoadingRef /\ isLoadingRef') => (request = <<>> /\ Len(request') = 1)]_vars
    /\ [][(isLoadingRef /\ ~isLoadingRef') =>
            \E outcome \in {"ok", "error"} : FetchSettles(outcome)]_vars

\* the deferred send of a dictation fired while the request of a typed message
\* was in flight, and was dropped
C29_Witness ==
    /\ request # <<>> /\ isLoadingRef /\ autoSends = 1 /\ timers = <<>>
    /\ messagesRef = << [type |-> "user", text |-> <<"c">>] >>
    /\ stopAndSendCalled /\ endsHandled = 1 /\ inputValue = <<>>

(***************************************************************************)
(* C30: a dispatch that passed its guards completes: if the HTTP call      *)
(* resolves or rejects in the end, the request in flight is settled and    *)
(* the loading flag is false again; the step that settles it adds exactly  *)
(* one entry, an assistant reply or an error entry, right after the user   *)
(* message of that dispatch; so user messages and their answers alternate  *)
(* in the conversation.                                                    *)
(***************************************************************************)
C30_DispatchCompletes ==
    /\ (request # <<>> /\ isLoading) ~> (request = <<>> /\ ~isLoading /\ ~isLoadingRef)
    /\ [][\A outcome \in DispatchOutcomes :
            FetchSettles(outcome) =>
              /\ Len(messagesRef') = Len(messagesRef) + 1
              /\ SubSeq(messagesRef', 1, Len(messagesRef)) = messagesRef
              /\ messagesRef'[Len(messagesRef')].type \in {"assistant", "error"}
              /\ messagesRef[Len(messagesRef)] =
                   [type |-> "user", text |-> request[1].message]]_vars
    /\ [](/\ \A i \in DOMAIN messagesRef :
                IF i % 2 = 1 THEN messagesRef[i].type = "user"
                ELSE messagesRef[i].type \in {"assistant", "error"}
          /\ Len(messagesRef) % 2 = (IF isLoading THEN 1 ELSE 0))

\* two dispatches have completed, one with a reply and one with an error entry
C30_Witness ==
    /\ ~isLoading /\ request = <<>> /\ Len(messagesRef) = 4
    /\ messagesRef[2].type = "assistant" /\ messagesRef[4].type = "error"
    /\ speechError = ""

(***************************************************************************)
(* C27: a session that is Listening has a stream that is running;          *)
(* stopAndSend() and cancel() ask that stream to stop, and if a stream     *)
(* that was asked to stop ends, the session reaches Idle; a stream error   *)
(* leaves the session Idle at once; and the session leaves Listening only  *)
(* in a step in which onend or onerror runs: nothing else, no timeout,     *)
(* ends it.                                                                *)
(***************************************************************************)
C27_ListeningEndsWithTheStream ==
    /\ (isListening /\ stream = "stopping") ~> ~isListening
    /\ [](isListening => stream \in {"starting", "active", "stopping"})
    /\ [][(StopAndSend \/ handleCancelListening) => (isListening' /\ stream' = "stopping")]_vars
    /\ [][(\E code \in SessionErrorCodes : OnError(code)) => ~isListening']_vars
    /\ [][(isListening /\ ~isListening') =>
            (OnEndStep \/ \E code \in SessionErrorCodes : OnError(code))]_vars

\* the message of a first dictation was sent; the second dictation was stopped
\* with stopAndSend() and has reached Idle, its send still to fire
C27_Witness ==
    /\ ~isListening /\ stream = "idle" /\ stopAndSendCalled /\ endsHandled = 1
    /\ autoSends = 1 /\ Len(timers) = 1 /\ UserEntries(messagesRef) = 1

(***************************************************************************)
(* C31: the text a stream end with the intent hands to the deferred send   *)
(* is not lost: when the deferred send has run, the text is a user message *)
(* of the conversation or is in displayText, also when a request           *)
(* is in flight at that moment.  onend has emptied displayText, and        *)
(* handleSendMessage returns at once while a request is in flight: the     *)
(* text is in neither place, so this fails.                                *)
(***************************************************************************)
C31_DictatedTextNotLost ==
    [][TimerFiresWithin(MaxOverlap) =>
         \/ \E i \in DOMAIN messagesRef' :
                messagesRef'[i] = [type |-> "user", text |-> Head(timers)]
         \/ ExactOccurs(Head(timers), inputValue')]_vars

(* C32: the deferred send, when it dispatches, appends the text of the     *)
(* ended session as a user message and leaves displayText and finalText as *)
(* they are, whatever was typed or dictated since the stream end.          *)
(* handleSendMessage empties the input on every dispatch, so text typed or *)
(* dictated in between is wiped: this fails.                               *)
C32_DeferredSendLeavesNewSession ==
    [][(TimerFires /\ messagesRef' # messagesRef) =>
         /\ messagesRef' = Append(messagesRef, [type |-> "user", text |-> Head(timers)])
         /\ UNCHANGED <<inputValue, finalTranscriptRef>>]_vars

(* C33: an explicit send accepted while the session is Listening leaves no *)
(* already sent text in finalText, so that a later stopAndSend() of the    *)
(* same session cannot dispatch it again.  handleSendMessage never touches *)
(* finalText: this fails, and the stream end sends the same text again.    *)
C33_ExplicitSendLeavesNoSentText ==
    [][(ClickSendWithin(MaxOverlap) /\ isListening /\ messagesRef' # messagesRef) =>
         finalTranscriptRef' = <<>>]_vars

(* C34: when the permission request made after a PermissionDenied stream   *)
(* error settles, its outcome decides the advisory: the 'Permission        *)
(* granted!' advisory when it was granted, the permission-required         *)
(* advisory when it was denied.  The callback reads the field `granted` of *)
(* a boolean, so the granted case publishes the denied advisory: this      *)
(* fails.                                                                  *)
C34_ReRequestOutcomeDecidesAdvisory ==
    [][\A granted \in BOOLEAN :
         PermOnErrorSettles(granted) =>
             speechError' = IF granted THEN MsgGranted ELSE MsgPermissionRequired]_vars

(* C35: a start() that throws leaves the session Idle with an advisory,    *)
(* the intent false and nothing dispatched, and starts no stream; a        *)
(* failure that is not about the permission clears the manual-start marker *)
(* at once; a permission failure issues one permission request, and when   *)
(* that request settles the marker is cleared and an advisory is on        *)
(* display, again without a start of the stream and without a dispatch.    *)
C35_FailedStartEndsIdle ==
    [][/\ \A outcome \in {"NotAllowedError", "InvalidStateError"} :
            StartListening(outcome) =>
                /\ ~isListening'
                /\ speechError' # ""
                /\ ~shouldSendOnStopRef'
                /\ UNCHANGED <<timers, request, messagesRef, stream, endsOwed>>
                /\ IF outcome = "NotAllowedError"
                   THEN permStart' = permStart + 1
                   ELSE permStart' = permStart /\ ~isManualStart'
       /\ \A granted \in BOOLEAN :
            PermStartSettles(granted) =>
                /\ ~isManualStart'
                /\ speechError' # ""
                /\ permStart' = permStart - 1
                /\ UNCHANGED <<isListening, shouldSendOnStopRef, timers, request,
                               messagesRef, stream, endsOwed>>]_vars

\* the permission was refused at start(), asked for again and granted: the
\* session is Idle with the advisory to press the button again
C35_Witness ==
    /\ speechError = MsgGranted
    /\ permStart = 0
    /\ ~isListening
    /\ ~isManualStart
    /\ ~shouldSendOnStopRef
    /\ stream = "idle"

(* C36: a start event of the stream that no user start() caused (the       *)
(* marker is not set: the platform restarted the stream) leaves finalText, *)
(* the dedup set and the marker unchanged, and an event that delivers only *)
(* finals already in the dedup set is discarded whole; a start event that  *)
(* finds the marker set empties finalText and the dedup set and clears the *)
(* marker, so that it does so once; no restart of a running stream finds   *)
(* the marker set.                                                         *)
C36_AutoRestartKeepsTranscript ==
    /\ [][/\ (OnStart \/ OnAutoRestart) =>
                 IF isManualStart
                 THEN finalTranscriptRef' = <<>> /\ seenFinalTexts' = {} /\ ~isManualStart'
                 ELSE UNCHANGED <<finalTranscriptRef, seenFinalTexts, isManualStart>>
          /\ OnAutoRestart => ~isManualStart]_vars
    /\ [](stream \in {"active", "stopping"} =>
            \A event \in Events :
                FinalKeys(event) \subseteq seenFinalTexts =>
                    LET w == WalkResults(event, 1, seenFinalTexts, <<>>, <<>>) IN
                    /\ w.seen = seenFinalTexts
                    /\ RebuildFinal(w.finalTextParts, finalTranscriptRef) = finalTranscriptRef
                    /\ FirstAcceptance(acceptedFinals, event, 1) = acceptedFinals)

\* the stream of a dictation with accepted finals has just been restarted by
\* the platform: finalText and the dedup set are still there
C36_Witness ==
    /\ isListening
    /\ stream = "active"
    /\ lastResult = NoResult
    /\ ~isManualStart
    /\ finalTranscriptRef # <<>>
    /\ seenFinalTexts # {}

\* the entries of seq at the indices in S, in order
EntriesAt(seq, S) ==
    LET F[i \in 0..Len(seq)] ==
            IF i = 0 THEN <<>>
            ELSE IF i \in S THEN Append(F[i - 1], seq[i]) ELSE F[i - 1]
    IN  F[Len(seq)]

(* C37: in every reachable state finalText is empty or is made of final    *)
(* segments delivered since the last start() or cancel(), each of which    *)
(* has its fingerprint (the trimmed text in lower case) in the dedup set;  *)
(* and every member of the dedup set is the fingerprint of a final segment *)
(* delivered since the last start() or cancel().                           *)
C37_DedupSetCoversFinalText ==
    /\ \/ finalTranscriptRef = <<>>
       \/ \E S \in SUBSET (1..Len(acceptedFinals)) :
            /\ S # {}
            /\ Join(EntriesAt(acceptedFinals, S)) = finalTranscriptRef
            /\ \A i \in S : ToLowerCase(acceptedFinals[i]) \in seenFinalTexts
    /\ seenFinalTexts \subseteq
            { ToLowerCase(acceptedFinals[i]) : i \in 1..Len(acceptedFinals) }

\* two finals were delivered in the dictation and finalText holds text
C37_Witness ==
    /\ stream = "active"
    /\ finalTranscriptRef # <<>>
    /\ Cardinality(seenFinalTexts) = 2
    /\ Len(acceptedFinals) = 2

=============================================================================
